---- MODULE Spec2Model ----
(***************************************************************************)
(* A model of the eip712 package: EIP-712 message definitions, the domain  *)
(* resolver (EIP712Message._domain_), the type-graph builders              *)
(* (utils.build_eip712_type and EIP712Type.eip712_types), the canonical    *)
(* struct (EIP712Message._body_) and the signable message / digest.        *)
(*                                                                         *)
(* Python values are tagged records so that values of different Python     *)
(* types can be compared: [t |-> "int", n |-> 0], [t |-> "str", s |-> ""], *)
(* [t |-> "none"].  Python dicts are association lists (sequences of       *)
(* [name, ...] entries in insertion order), so that a key held twice is    *)
(* representable and "held once" is a property of the code, not of the     *)
(* representation.  keccak is a perfect hash: an injective constructor.    *)
(* Records of different shapes never share a field whose values differ in  *)
(* type, so that any two values can be compared.                           *)
(***************************************************************************)
EXTENDS Integers, Sequences, FiniteSets, TLC

(***************************************************************************)
(* Bounds of the model.                                                    *)
(***************************************************************************)
\* chainId values supplied by a caller: 0..MaxChainId (0 is a falsy value)
MaxChainId == 1

\* declared message fields of the primary type: 1..MaxFields
MaxFields == 2

\* nesting of list[...] in an annotation of the primary type: 0..MaxListDepth
MaxListDepth == 2

\* the interpreter's recursion limit (sys.getrecursionlimit()), counted in
\* nested calls of a type-graph builder; it exceeds the longest chain of
\* distinct classes the schemas below can form (three)
RecursionLimit == 4

\* the most members of the EIP712Domain struct a validated document declares
\* (the documents the message side makes of a header have up to five)
MaxDomainMembers == 2

(***************************************************************************)
(* Python values.                                                          *)
(***************************************************************************)
None == [t |-> "none"]

IntVal(n) == [t |-> "int", n |-> n]

StrVal(s) == [t |-> "str", s |-> s]

\* Python truthiness of a value: bool(x)
Truthy(x) ==
    CASE x.t = "none" -> FALSE
      [] x.t = "int"  -> x.n # 0
      [] x.t = "str"  -> x.s # ""
      [] OTHER        -> TRUE

(***************************************************************************)
(* messages.py: the domain fields, in the order the code fixes.            *)
(***************************************************************************)
EIP712_DOMAIN_FIELDS ==
    << [name |-> "name",              type |-> "string"],
       [name |-> "version",           type |-> "string"],
       [name |-> "chainId",           type |-> "uint256"],
       [name |-> "verifyingContract", type |-> "address"],
       [name |-> "salt",              type |-> "bytes32"] >>

DomainFieldNames == { EIP712_DOMAIN_FIELDS[i].name : i \in DOMAIN EIP712_DOMAIN_FIELDS }

\* the attribute name of a header field: f"eip712_{field}_"
HeaderAttr(field) == "eip712_" \o field \o "_"

HeaderAttrs == { HeaderAttr(f) : f \in DomainFieldNames }

(***************************************************************************)
(* The header values a caller supplies, in the order they are supplied     *)
(* (keyword arguments of create_permit_def, or the class body of a         *)
(* subclass): a sequence of [field, value] without repeated fields.        *)
(***************************************************************************)
HeaderValues(field) ==
    CASE field = "name"              -> { StrVal(""), StrVal("App") }
      [] field = "version"           -> { StrVal("1") }
      [] field = "chainId"           -> { IntVal(n) : n \in 0..MaxChainId }
      [] field = "verifyingContract" -> { StrVal("0xC0") }
      [] field = "salt"              -> { StrVal("0x5A") }

\* getattr(self, f"eip712_{field}_"): the supplied value, or the default None
HeaderGetattr(hdr, field) ==
    IF \E i \in DOMAIN hdr : hdr[i].field = field
    THEN hdr[CHOOSE i \in DOMAIN hdr : hdr[i].field = field].value
    ELSE None

(***************************************************************************)
(* Results of a call: a value, or the exception raised.                    *)
(***************************************************************************)
Ok(v) == [ok |-> TRUE, v |-> v]

Raise(e) == [ok |-> FALSE, err |-> e]

(***************************************************************************)
(* Python dicts as association lists: entries [name, ...] in insertion     *)
(* order.                                                                  *)
(***************************************************************************)
DictKeys(d) == [i \in DOMAIN d |-> d[i].name]

DictHas(d, key) == \E i \in DOMAIN d : d[i].name = key

DictIndex(d, key) == CHOOSE i \in DOMAIN d : d[i].name = key

\* the member list of the key `name` of a type graph
MembersOf(types, name) == types[DictIndex(types, name)].members

\* a merge that never looks for the name: the entry is always inserted last
DictSetNoDedup(d, entry) == Append(d, entry)

\* d[key] = entry: the entry replaces the one held under its name, in place,
\* or is inserted last
DictSet(d, entry) ==
    IF DictHas(d, entry.name)
    THEN [d EXCEPT ![DictIndex(d, entry.name)] = entry]
    ELSE Append(d, entry)

\* d.update(other)
RECURSIVE DictUpdate(_, _)
DictUpdate(d, other) ==
    IF other = << >> THEN d
    ELSE DictUpdate(DictSet(d, Head(other)), Tail(other))

(***************************************************************************)
(* Annotations of model fields.                                            *)
(*   [k |-> "abi", name]     a type of eth_pydantic_types.abi (abi.uint256) *)
(*   [k |-> "native", name]  Address, HexBytes, bytes, str                 *)
(*   [k |-> "model", name]   a BaseModel subclass (an EIP712Type)          *)
(*   [k |-> "list", inner]   list[inner]                                   *)
(*   [k |-> "optional", inner]  inner | None (the header fields)           *)
(*   [k |-> "tuple", first]  a (type, default, ...) tuple                  *)
(*   [k |-> "none"]          no annotation                                 *)
(*   [k |-> "other", name]   any other type (int, dict, ...)               *)
(***************************************************************************)
AbiT(n) == [k |-> "abi", name |-> n]

NativeT(n) == [k |-> "native", name |-> n]

ModelT(n) == [k |-> "model", name |-> n]

ListT(a) == [k |-> "list", inner |-> a]

OptionalT(a) == [k |-> "optional", inner |-> a]

\* a table in which str is taken for a byte string
NonAbiTypesStrAsBytes ==
    << [name |-> "Address",  type |-> "address"],
       [name |-> "HexBytes", type |-> "bytes"],
       [name |-> "bytes",    type |-> "bytes"],
       [name |-> "str",      type |-> "bytes"] >>

\* utils.py: the native annotations and their ABI names
SUPPORTED_NONABI_TYPES ==
    << [name |-> "Address",  type |-> "address"],
       [name |-> "HexBytes", type |-> "bytes"],
       [name |-> "bytes",    type |-> "bytes"],
       [name |-> "str",      type |-> "string"] >>

is_model_type(t) == t.k = "model"

RECURSIVE get_abi_type(_)
get_abi_type(t) ==
    CASE t.k = "tuple"  -> get_abi_type(t.first)
      [] t.k = "native" /\ DictHas(SUPPORTED_NONABI_TYPES, t.name)
                        -> Ok(SUPPORTED_NONABI_TYPES[DictIndex(SUPPORTED_NONABI_TYPES, t.name)].type)
      [] t.k = "list"   -> LET inner_type == get_abi_type(t.inner)
                           IN  IF inner_type.ok THEN Ok(inner_type.v \o "[]") ELSE inner_type
      [] t.k = "abi"    -> Ok(t.name)
      [] t.k = "model"  -> Ok(t.name)
      [] t.k = "none"   -> Raise("AttributeError")  \* None has no __module__
      [] OTHER          -> Raise("TypeError")

\* eth_abi: the elementary ABI type names, and the type strings with an encoder
ElementaryAbiNames ==
    {"address", "bool", "string", "bytes"}
      \cup { "bytes" \o ToString(n) : n \in 1..32 }
      \cup { "uint" \o ToString(8 * n) : n \in 1..32 }
      \cup { "int" \o ToString(8 * n) : n \in 1..32 }

EncodableTypes == ElementaryAbiNames \cup { e \o "[]" : e \in ElementaryAbiNames }

is_encodable_type(s) == s \in EncodableTypes

(***************************************************************************)
(* The state: one message definition (a class and the classes it refers    *)
(* to), one instance of it, and the result of the last operation.          *)
(***************************************************************************)
VARIABLES
    way,        \* how the class was defined: "subclass" | "create_permit_def"
                \*   | "create_safe_tx_def"
    primary,    \* __name__ of the class
    isMessage,  \* the class derives from EIP712Message (else from EIP712Type)
    schema,     \* class name -> the fields its body declares, in order
    header,     \* the header values supplied, in the order supplied
    leaf,       \* the value every elementary message field of the instance holds
    pc,         \* "undefined" | "defined" | "constructed" | "rejected"
    result,     \* the last operation and what it returned or raised
    hashed,     \* a hash primitive (keccak) has been invoked
    returned    \* operation -> what its first call on this instance returned

vars == << way, primary, isMessage, schema, header, leaf, pc, result, hashed, returned >>

\* the operations whose first result is kept, and the mark of "not yet called"
FrameOps == {"_types_", "build_eip712_type", "_body_", "signable_message", "_message_hash_"}

NotCalled == Raise("not called")

NothingReturned == [op \in FrameOps |-> NotCalled]

\* the struct classes a primary type may refer to
SubStructs == {"S1", "S2"}

(***************************************************************************)
(* messages.py, EIP712Message: the five header fields every message class  *)
(* inherits, each "<abi type> | None" with default None; a subclass body   *)
(* that assigns one re-annotates it.                                       *)
(***************************************************************************)
HeaderAnnotations ==
    << [name |-> "name",              type |-> "string"],
       [name |-> "version",           type |-> "string"],
       [name |-> "chainId",           type |-> "uint256"],
       [name |-> "verifyingContract", type |-> "string"],
       [name |-> "salt",              type |-> "bytes32"] >>

HeaderSupplied(field) == \E i \in DOMAIN header : header[i].field = field

HeaderModelFields ==
    [i \in DOMAIN HeaderAnnotations |->
        [name |-> HeaderAttr(HeaderAnnotations[i].name),
         ann  |-> IF way # "create_permit_def" /\ HeaderSupplied(HeaderAnnotations[i].name)
                  THEN AbiT(EIP712_DOMAIN_FIELDS[i].type)
                  ELSE OptionalT(AbiT(HeaderAnnotations[i].type))]]

\* cls.model_fields: inherited fields first, then the class body's
model_fields(cls) ==
    IF cls = primary /\ isMessage THEN HeaderModelFields \o schema[cls] ELSE schema[cls]

(***************************************************************************)
(* utils.py: build_eip712_type.  depth counts the nested calls.            *)
(***************************************************************************)
\* field_types[cls.__name__].append(member)
AppendMember(field_types, cls, member) ==
    [field_types EXCEPT ![DictIndex(field_types, cls)].members = Append(@, member)]

RECURSIVE build_eip712_type(_, _)
RECURSIVE BuildLoop(_, _, _, _, _)
\* the loop over cls.model_fields.items(), from its i-th item on
BuildLoop(cls, fields, i, field_types, depth) ==
    IF i > Len(fields) THEN Ok(field_types)
    ELSE
      LET field      == fields[i].name
          field_type == fields[i].ann
          sub == IF field_type.k = "none" THEN Raise("TypeError")
                 ELSE IF is_model_type(field_type)
                      THEN build_eip712_type(field_type.name, depth + 1)
                 ELSE IF field_type.k = "list" /\ is_model_type(field_type.inner)
                      THEN build_eip712_type(field_type.inner.name, depth + 1)
                 ELSE Ok(<< >>)
      IN  IF ~sub.ok THEN sub
          ELSE LET abi_type == get_abi_type(field_type)
               IN  IF ~abi_type.ok THEN abi_type
                   ELSE BuildLoop(cls, fields, i + 1,
                                  AppendMember(DictUpdate(field_types, sub.v), cls,
                                               [name |-> field, type |-> abi_type.v]),
                                  depth)

build_eip712_type(cls, depth) ==
    IF depth > RecursionLimit THEN Raise("RecursionError")
    ELSE BuildLoop(cls, model_fields(cls), 1, << [name |-> cls, members |-> << >>] >>, depth)

(***************************************************************************)
(* messages.py: EIP712Type.eip712_types.  The fields whose name starts     *)
(* with "eip712_" are skipped; a field annotated with an ABI type name is  *)
(* validated and listed, a field annotated with an EIP712Type is listed    *)
(* and its own types merged in, any other annotation is refused.           *)
(***************************************************************************)
\* the field names of the model that start with "eip712_" / end with "_"
StartsWithEip712(k) == k \in HeaderAttrs \cup {"eip712_extra", "eip712_other_"}

EndsWithUnderscore(k) == k \in HeaderAttrs \cup {"extra_", "eip712_other_"}

TypedFields(cls) ==
    SelectSeq(model_fields(cls), LAMBDA f : ~StartsWithEip712(f.name))

RECURSIVE eip712_types(_, _)
RECURSIVE TypesLoop(_, _, _, _, _)
\* the loop over the fields, from its i-th item on
TypesLoop(cls, fields, i, types, depth) ==
    IF i > Len(fields) THEN Ok(types)
    ELSE
      LET field      == fields[i].name
          field_type == fields[i].ann
      IN  IF field_type.k \in {"str", "abi"}
          THEN IF ~is_encodable_type(field_type.name) THEN Raise("ValidationError")
               ELSE TypesLoop(cls, fields, i + 1,
                              AppendMember(types, cls, [name |-> field, type |-> field_type.name]),
                              depth)
          ELSE IF field_type.k = "model"
          THEN LET sub == eip712_types(field_type.name, depth + 1)
               IN  IF ~sub.ok THEN sub
                   ELSE TypesLoop(cls, fields, i + 1,
                                  DictUpdate(AppendMember(types, cls,
                                                          [name |-> field, type |-> field_type.name]),
                                             sub.v),
                                  depth)
          ELSE Raise("ValidationError")

eip712_types(cls, depth) ==
    IF depth > RecursionLimit THEN Raise("RecursionError")
    ELSE TypesLoop(cls, TypedFields(cls), 1, << [name |-> cls, members |-> << >>] >>, depth)

\* a _types_ that hands out one shared dict, which _body_ updates in place
\* with the domain types
TypesSharedWithBody ==
    IF returned["_body_"].ok THEN Ok(returned["_body_"].v.types)
    ELSE eip712_types(primary, 1)

\* EIP712Type._types_
types_ == eip712_types(primary, 1)

(***************************************************************************)
(* messages.py: EIP712Message.validate_model and _domain_.                 *)
(***************************************************************************)
\* value.__annotations__: the names the class body annotates
ClassAnnotations ==
    IF way = "create_permit_def" THEN HeaderAttrs
    ELSE { HeaderAttr(header[i].field) : i \in DOMAIN header }
           \cup { schema[primary][i].name : i \in DOMAIN schema[primary] }

validate_model ==
    IF ~ \E i \in DOMAIN EIP712_DOMAIN_FIELDS :
           HeaderAttr(EIP712_DOMAIN_FIELDS[i].name) \in ClassAnnotations
    THEN Raise("ValidationError")
    ELSE Ok(None)

\* the comprehension of lines 161-165, for an instance whose header is hdr
domain_type(hdr) ==
    SelectSeq(EIP712_DOMAIN_FIELDS, LAMBDA f : Truthy(HeaderGetattr(hdr, f.name)))

domain_of(hdr) ==
    [types  |-> << [name |-> "EIP712Domain", members |-> domain_type(hdr)] >>,
     domain |-> [i \in DOMAIN domain_type(hdr) |->
                    [name  |-> domain_type(hdr)[i].name,
                     value |-> HeaderGetattr(hdr, domain_type(hdr)[i].name)]]]

\* EIP712Message._domain_
domain_ == domain_of(header)

(***************************************************************************)
(* The instance: every elementary field holds IntVal(leaf), a struct field *)
(* an instance of its class, a list field two elements.                    *)
(***************************************************************************)
RECURSIVE ValueOf(_)
ValueOf(ann) ==
    CASE ann.k = "model" ->
            [t |-> "inst", cls |-> ann.name,
             fields |-> [i \in DOMAIN schema[ann.name] |->
                      [name  |-> schema[ann.name][i].name,
                       value |-> ValueOf(schema[ann.name][i].ann)]]]
      [] ann.k = "list"  -> [t |-> "list", items |-> << ValueOf(ann.inner), ValueOf(ann.inner) >>]
      [] OTHER           -> IntVal(leaf)

\* a getattr that hands out the domain name for an elementary message field
GetattrDomainName(key) ==
    IF key \in HeaderAttrs
    THEN HeaderGetattr(header, CHOOSE f \in DomainFieldNames : HeaderAttr(f) = key)
    ELSE LET ann == schema[primary][CHOOSE i \in DOMAIN schema[primary] :
                                      schema[primary][i].name = key].ann
         IN  IF ann.k = "abi" THEN HeaderGetattr(header, "name") ELSE ValueOf(ann)

\* getattr(self, key)
Getattr(key) ==
    IF key \in HeaderAttrs
    THEN HeaderGetattr(header, CHOOSE f \in DomainFieldNames : HeaderAttr(f) = key)
    ELSE ValueOf(schema[primary][CHOOSE i \in DOMAIN schema[primary] :
                                   schema[primary][i].name = key].ann)

\* pydantic: value.model_dump(mode="json"), nested models and lists included
RECURSIVE model_dump(_)
model_dump(x) ==
    CASE x.t = "inst" -> [t |-> "dict",
                          entries |-> [i \in DOMAIN x.fields |->
                                   [name  |-> x.fields[i].name,
                                    value |-> model_dump(x.fields[i].value)]]]
      [] x.t = "list" -> [t |-> "list", items |-> [i \in DOMAIN x.items |-> model_dump(x.items[i])]]
      [] OTHER        -> x

\* EIP712Type._prepare_data_for_hashing, on a dict of name -> value
RECURSIVE prepare_data_for_hashing(_)
prepare_data_for_hashing(data) ==
    [i \in DOMAIN data |->
        [name  |-> data[i].name,
         value |-> CASE data[i].value.t = "inst" -> model_dump(data[i].value)
                     [] data[i].value.t = "dict" ->
                            [t |-> "dict",
                             entries |-> prepare_data_for_hashing(data[i].value.entries)]
                     [] OTHER -> data[i].value]]

(***************************************************************************)
(* messages.py: EIP712Message._body_.                                      *)
(***************************************************************************)
MessageKeys ==
    SelectSeq(DictKeys(model_fields(primary)),
              LAMBDA key : ~StartsWithEip712(key) \/ ~EndsWithUnderscore(key))

body_ ==
    LET types_r == types_
    IN
    IF ~types_r.ok THEN types_r
    ELSE Ok([domain      |-> domain_.domain,
             types       |-> DictUpdate(types_r.v, domain_.types),
             primaryType |-> primary,
             message     |-> [i \in DOMAIN MessageKeys |->
                                [name |-> MessageKeys[i], value |-> Getattr(MessageKeys[i])]]])

(***************************************************************************)
(* The hash primitives messages.py calls (eth_utils.keccak and eth_account *)
(* hash_domain / hash_eip712_message).  keccak is injective; a 32-byte     *)
(* digest is one item of a byte string.                                    *)
(***************************************************************************)
keccak(x) == [keccak |-> x]

\* one byte, by its two hex digits
Byte(hex) == [byte |-> hex]

\* the type string of primary_type with the types it depends on
encode_type(primary_type, types) ==
    [encodeType |-> primary_type, types |-> types]

hash_type(primary_type, types) == keccak(encode_type(primary_type, types))

RECURSIVE hash_struct(_, _, _)
encode_field(types, type, value) ==
    IF DictHas(types, type)
    THEN hash_struct(type, types, value.entries)
    ELSE [word |-> type, of |-> value]

\* typeHash followed by one word per member, in the order of types[primary_type]
encode_data(primary_type, types, data) ==
    LET members == types[DictIndex(types, primary_type)].members
    IN  << hash_type(primary_type, types) >> \o
        [i \in DOMAIN members |->
            encode_field(types, members[i].type,
                         data[DictIndex(data, members[i].name)].value)]

hash_struct(primary_type, types, data) == keccak(encode_data(primary_type, types, data))

\* eth_account.messages.hash_domain: the domain types are the fields of the
\* domain data, in the order of the standard
hash_domain(domain_data) ==
    hash_struct("EIP712Domain",
                << [name    |-> "EIP712Domain",
                    members |-> SelectSeq(EIP712_DOMAIN_FIELDS,
                                          LAMBDA f : DictHas(domain_data, f.name))] >>,
                domain_data)

\* eth_account.messages.get_primary_type: the one type no other type refers to
get_primary_type(types) ==
    LET names == { types[i].name : i \in DOMAIN types }
        roots == { n \in names :
                     ~ \E i \in DOMAIN types :
                         /\ types[i].name # n
                         /\ \E j \in DOMAIN types[i].members : types[i].members[j].type = n }
    IN  IF Cardinality(roots) = 1 THEN Ok(CHOOSE n \in roots : TRUE)
        ELSE Raise("ValueError")

hash_eip712_message(types, message) ==
    LET primary_type == get_primary_type(types)
    IN  IF ~primary_type.ok THEN primary_type
        ELSE Ok(hash_struct(primary_type.v, types, message))

(***************************************************************************)
(* messages.py: signable_message, calculate_hash and _message_hash_.       *)
(***************************************************************************)
\* bytes(1): one zero byte
ZeroByte == << Byte("00") >>

\* HexBytes(1): the integer 1 as bytes
HexBytes1 == << Byte("01") >>

\* a signable_message that hashes the domain before it builds the types
HashedUnprepared == TRUE

\* lines 236-238 raise before the first hash primitive runs
signable_message_prepared == types_.ok

\* _domain_separator_, _struct_hash_, _encoded_struct_ and _type_hash_ call
\* the bare name _prepare_data_for_hashing, which no scope defines: the name
\* is looked up before its arguments are evaluated
HashProperties == {"_domain_separator_", "_struct_hash_", "_encoded_struct_", "_type_hash_"}

hash_property(name) == Raise("NameError")

signable_message ==
    LET types_r == types_
        body_r  == body_
    IN  IF ~types_r.ok THEN types_r
        ELSE IF ~body_r.ok THEN body_r
        ELSE LET domain  == prepare_data_for_hashing(domain_.domain)
                 types   == types_r.v
                 message == prepare_data_for_hashing(body_r.v.message)
                 messageDomain == hash_domain(domain)
                 messageEIP    == hash_eip712_message(types, message)
             IN  IF ~messageEIP.ok THEN messageEIP
                 ELSE Ok([version |-> HexBytes1,
                          header  |-> << messageDomain >>,
                          body    |-> << messageEIP.v >>])

calculate_hash(msg) ==
    keccak(<< Byte("19") >> \o msg.version \o msg.header \o msg.body)

message_hash_ ==
    LET msg == signable_message
    IN  IF ~msg.ok THEN msg ELSE Ok(calculate_hash(msg.v))

(***************************************************************************)
(* The message definitions and header values the model draws.              *)
(***************************************************************************)
HeaderEntries ==
    UNION { { [field |-> f, value |-> v] : v \in HeaderValues(f) } : f \in DomainFieldNames }

\* every subset of the header fields, in every order, with every value
Headers ==
    UNION { { h \in [1..n -> HeaderEntries] :
                \A i, j \in 1..n : i # j => h[i].field # h[j].field }
            : n \in 0..Len(EIP712_DOMAIN_FIELDS) }

\* the names of declared message fields, by position
FieldNames == << "a", "b", "c", "d", "e", "f" >>

Fields(anns) == [i \in DOMAIN anns |-> [name |-> FieldNames[i], ann |-> anns[i]]]

RECURSIVE Nested(_, _)
Nested(ann, depth) == IF depth = 0 THEN ann ELSE ListT(Nested(ann, depth - 1))

BaseAnnotations == { AbiT("uint256"), ModelT("S1"), ModelT("S2") }

\* annotations of the primary type's fields: T, list[T], list[list[T]], ...
PrimaryAnnotations ==
    { Nested(b, d) : b \in BaseAnnotations, d \in 0..MaxListDepth }

\* annotations of the one field of S1 and of S2
S1Annotations ==
    { AbiT("uint256"), ModelT("S2"), ModelT("S1"), ListT(ModelT("S1")), ListT(ModelT("S2")) }

S2Annotations == { AbiT("uint256"), ModelT("S1"), ListT(ModelT("S1")) }

\* common.py: EIP2612, the fields of the class create_permit_def returns
EIP2612 ==
    << [name |-> "owner",    ann |-> AbiT("address")],
       [name |-> "spender",  ann |-> AbiT("address")],
       [name |-> "value",    ann |-> AbiT("uint256")],
       [name |-> "nonce",    ann |-> AbiT("uint256")],
       [name |-> "deadline", ann |-> AbiT("uint256")] >>

SchemaOf(name, fields, s1, s2) ==
    [c \in {name} \cup SubStructs |->
        IF c = name THEN fields
        ELSE IF c = "S1" THEN << [name |-> "x", ann |-> s1] >>
        ELSE << [name |-> "y", ann |-> s2] >>]

\* the message classes an instance is made of: flat, nested, one struct
\* referred to twice, and an array field
InstanceSchemas ==
    { SchemaOf(n, Fields(anns), AbiT("uint256"), ModelT("S1")) :
        n \in {"Msg", "EIP712Domain"},
        anns \in { << AbiT("uint256") >>,
                   << AbiT("uint256"), ModelT("S1") >>,
                   << ModelT("S2"), ModelT("S1") >>,
                   << ListT(AbiT("uint256")) >> } }

LeafValues == {0, 1}

\* the headers of the instances whose schema varies: one field, and all five
InstanceHeaders ==
    { << [field |-> "name", value |-> StrVal("App")] >>,
      [i \in DOMAIN EIP712_DOMAIN_FIELDS |->
          [field |-> EIP712_DOMAIN_FIELDS[i].name,
           value |-> CHOOSE v \in HeaderValues(EIP712_DOMAIN_FIELDS[i].name) : Truthy(v)]] }

\* the state after a message class is defined and before it is instantiated:
\* any header with a flat message class (a subclass, or the class
\* create_permit_def returns), or any of the instance schemas with one of
\* the instance headers
Init ==
    /\ isMessage = TRUE
    /\ \/ /\ header \in Headers
          /\ leaf = 0
          /\ \/ /\ way = "create_permit_def"
                /\ primary = "Permit"
                /\ schema = SchemaOf("Permit", EIP2612, AbiT("uint256"), AbiT("uint256"))
             \/ /\ way = "subclass"
                /\ primary = "Msg"
                /\ schema = SchemaOf("Msg", Fields(<< AbiT("uint256") >>),
                                     AbiT("uint256"), AbiT("uint256"))
       \/ /\ header \in InstanceHeaders
          /\ leaf \in LeafValues
          /\ way = "subclass"
          /\ primary \in {"Msg", "EIP712Domain"}
          /\ schema \in { s \in InstanceSchemas : primary \in DOMAIN s }
    /\ pc = "defined"
    /\ result = [op |-> "none", arg |-> None, r |-> Ok(None)]
    /\ hashed = FALSE
    /\ returned = NothingReturned

\* the classes whose type graph is built: every schema within the bounds
InitBuild ==
    /\ way = "subclass"
    /\ primary = "Msg"
    /\ \/ isMessage = FALSE /\ header = << >>
       \/ /\ isMessage = TRUE
          /\ header \in InstanceHeaders
    /\ \E n \in 1..MaxFields :
         \E anns \in [1..n -> PrimaryAnnotations] :
           \E s1 \in S1Annotations, s2 \in S2Annotations :
             schema = SchemaOf("Msg", Fields(anns), s1, s2)
    /\ leaf = 0
    /\ pc = "defined"
    /\ result = [op |-> "none", arg |-> None, r |-> Ok(None)]
    /\ hashed = FALSE
    /\ returned = NothingReturned

(***************************************************************************)
(* The operations.                                                         *)
(***************************************************************************)
Unchanged == UNCHANGED << way, primary, isMessage, schema, header, leaf, returned >>

\* cls(**values): pydantic runs validate_model after the fields are set
Construct ==
    /\ pc = "defined"
    /\ isMessage
    /\ pc' = IF validate_model.ok THEN "constructed" ELSE "rejected"
    /\ result' = [op |-> "construct", arg |-> None, r |-> validate_model]
    /\ UNCHANGED hashed
    /\ Unchanged

\* utils.build_eip712_type(cls)
BuildEip712Type ==
    /\ pc # "rejected"
    /\ result' = [op |-> "build_eip712_type", arg |-> None, r |-> build_eip712_type(primary, 1)]
    /\ UNCHANGED << pc, hashed >>
    /\ Unchanged

\* cls.eip712_types()
Eip712Types ==
    /\ pc # "rejected"
    /\ result' = [op |-> "eip712_types", arg |-> None, r |-> types_]
    /\ UNCHANGED << pc, hashed >>
    /\ Unchanged

\* msg._domain_
GetDomain ==
    /\ pc = "constructed"
    /\ result' = [op |-> "_domain_", arg |-> None, r |-> Ok(domain_)]
    /\ UNCHANGED << pc, hashed >>
    /\ Unchanged

\* msg._body_
GetBody ==
    /\ pc = "constructed"
    /\ result' = [op |-> "_body_", arg |-> None, r |-> body_]
    /\ UNCHANGED << pc, hashed >>
    /\ Unchanged

\* msg.signable_message
SignableMessage ==
    /\ pc = "constructed"
    /\ result' = [op |-> "signable_message", arg |-> None, r |-> signable_message]
    /\ hashed' = (hashed \/ signable_message_prepared)
    /\ UNCHANGED pc
    /\ Unchanged

\* msg._message_hash_
MessageHash ==
    /\ pc = "constructed"
    /\ result' = [op |-> "_message_hash_", arg |-> None, r |-> message_hash_]
    /\ hashed' = (hashed \/ signable_message_prepared)
    /\ UNCHANGED pc
    /\ Unchanged

\* msg._domain_separator_, msg._struct_hash_, msg._encoded_struct_, msg._type_hash_
HashProperty ==
    /\ pc = "constructed"
    /\ \E name \in HashProperties :
         result' = [op |-> name, arg |-> None, r |-> hash_property(name)]
    /\ UNCHANGED << pc, hashed >>
    /\ Unchanged

\* the 1-byte versions of a SignableMessage a caller can hold: 0x01
\* (structured data), 0x45 (personal message), 0x00 (intended validator)
SignableVersions == { << Byte("01") >>, << Byte("45") >>, << Byte("00") >> }

\* calculate_hash(msg): the caller passes the SignableMessage it got from
\* msg.signable_message, or one it made of the same hashes and another version
CalculateHash ==
    /\ pc = "constructed"
    /\ result.op = "signable_message"
    /\ result.r.ok
    /\ \E version \in SignableVersions :
         LET msg == [result.r.v EXCEPT !.version = version]
         IN  result' = [op |-> "calculate_hash", arg |-> msg, r |-> Ok(calculate_hash(msg))]
    /\ hashed' = TRUE
    /\ UNCHANGED pc
    /\ Unchanged

\* the life of one message instance
Next ==
    \/ Construct
    \/ GetDomain
    \/ GetBody
    \/ SignableMessage
    \/ MessageHash
    \/ HashProperty
    \/ CalculateHash

Spec == Init /\ [][Next]_vars

\* the type graph of one class, by either builder
NextBuild == BuildEip712Type \/ Eip712Types

SpecBuild == InitBuild /\ [][NextBuild]_vars

(***************************************************************************)
(* Claims about the domain (specification Spec).                           *)
(***************************************************************************)
SuppliedFields(hdr) == { hdr[i].field : i \in DOMAIN hdr }

\* the supplied fields in the order name, version, chainId, verifyingContract, salt
CanonicalFields(hdr) ==
    SelectSeq(EIP712_DOMAIN_FIELDS, LAMBDA f : f.name \in SuppliedFields(hdr))

\* the headers that supply the same fields and values as hdr, in any order
Reorderings(hdr) ==
    { h \in Headers : Len(h) = Len(hdr) /\ \A i \in DOMAIN h : \E j \in DOMAIN hdr : h[i] = hdr[j] }

\* the domain separator of an instance whose header is hdr
DomainSeparator(hdr) == hash_domain(prepare_data_for_hashing(domain_of(hdr).domain))

\* C1: for every non-empty set of supplied header fields and every order of
\* supplying them, the domain field list _domain_ returns is the supplied
\* fields in the order name, version, chainId, verifyingContract, salt, and
\* every reordering of the same fields and values gets the same field list
\* and the same domain separator.
C1_DomainOrder ==
    (result.op = "_domain_" /\ header # << >>) =>
        /\ result.r.v.types[1].members = CanonicalFields(header)
        /\ \A h \in Reorderings(header) :
              /\ domain_of(h).types = result.r.v.types
              /\ DomainSeparator(h) = DomainSeparator(header)

\* C2: a message that supplies none of the five header fields is rejected at
\* construction with no hash primitive invoked, and every constructed
\* message resolves to a domain of at least one field.
C2_NoDomainRejected ==
    /\ (pc # "defined" /\ header = << >>) => (pc = "rejected" /\ ~hashed)
    /\ result.op = "_domain_" => Len(result.r.v.types[1].members) >= 1

\* C3: the resolved domain holds a field if and only if the caller supplied
\* a value for it, in the field list and in the values alike, whatever the
\* value (0 and "" included).
C3_SuppliedIffPresent ==
    result.op = "_domain_" =>
        \A f \in DomainFieldNames :
            /\ f \in SuppliedFields(header)
                  <=> \E i \in DOMAIN result.r.v.types[1].members :
                          result.r.v.types[1].members[i].name = f
            /\ f \in SuppliedFields(header) <=> DictHas(result.r.v.domain, f)

(***************************************************************************)
(* get_abi_type as a function of its argument (specification SpecAbiType). *)
(***************************************************************************)
\* what a caller can pass for one field: the elementary ABI types, the
\* native types, a struct, "T | None", a type of no ABI meaning (int, a
\* fixed-size tuple[T, T]), and no annotation at all
PlainAnnotations ==
    { AbiT(n) : n \in ElementaryAbiNames }
      \cup { NativeT(n) : n \in {"Address", "HexBytes", "bytes", "str"} }
      \cup { ModelT("S1"), OptionalT(AbiT("string")),
             [k |-> "other", name |-> "int"],
             [k |-> "other", name |-> "tuple[uint256, uint256]"],
             [k |-> "none"] }

\* ... the dynamic arrays of those, and the (type, default, ...) tuples
AbiTypeInputs ==
    LET arrays == { Nested(a, d) : a \in PlainAnnotations, d \in 0..MaxListDepth }
    IN  arrays \cup { [k |-> "tuple", first |-> a] : a \in arrays }

InitAbiType ==
    /\ way = "subclass"
    /\ primary = "Msg"
    /\ isMessage = FALSE
    /\ header = << >>
    /\ schema = SchemaOf("Msg", Fields(<< AbiT("uint256") >>), AbiT("uint256"), AbiT("uint256"))
    /\ leaf = 0
    /\ pc = "defined"
    /\ result = [op |-> "none", arg |-> None, r |-> Ok(None)]
    /\ hashed = FALSE
    /\ returned = NothingReturned

\* utils.get_abi_type(t)
GetAbiType ==
    /\ \E t \in AbiTypeInputs :
         result' = [op |-> "get_abi_type", arg |-> t, r |-> get_abi_type(t)]
    /\ UNCHANGED << pc, hashed >>
    /\ Unchanged

NextAbiType == GetAbiType

SpecAbiType == InitAbiType /\ [][NextAbiType]_vars

\* an elementary ABI type, a native type, or a dynamic array of one
ElementaryAnnotation(t) == t.k \in {"abi", "native"}

AcyclicStructs ==
    LET refers(c, T) == \E i \in DOMAIN schema[c] :
                            schema[c][i].ann = ModelT(T) \/ schema[c][i].ann = ListT(ModelT(T))
    IN  /\ \A T \in SubStructs : ~refers(T, T)
        /\ ~(refers("S1", "S2") /\ refers("S2", "S1"))

\* an instance of every message class within the bounds
InitPrepare ==
    /\ way = "subclass"
    /\ primary = "Msg"
    /\ isMessage = TRUE
    /\ header = << [field |-> "name", value |-> StrVal("App")] >>
    /\ \E n \in 1..MaxFields :
         \E anns \in [1..n -> PrimaryAnnotations] :
           \E s1 \in S1Annotations, s2 \in S2Annotations :
             schema = SchemaOf("Msg", Fields(anns), s1, s2)
    /\ AcyclicStructs
    /\ leaf \in LeafValues
    /\ pc = "constructed"
    /\ result = [op |-> "none", arg |-> None, r |-> Ok(None)]
    /\ hashed = FALSE
    /\ returned = NothingReturned

\* the dict _body_ puts under "message": key -> getattr(self, key)
MessageValues ==
    [i \in DOMAIN MessageKeys |->
        [name |-> MessageKeys[i], value |-> Getattr(MessageKeys[i])]]

\* msg._prepare_data_for_hashing(msg._body_["message"])
PrepareData ==
    /\ pc = "constructed"
    /\ result' = [op |-> "_prepare_data_for_hashing", arg |-> None,
                  r |-> Ok(prepare_data_for_hashing(MessageValues))]
    /\ UNCHANGED << pc, hashed >>
    /\ Unchanged

\* msg._body_["message"], as it is
GetMessageValues ==
    /\ pc = "constructed"
    /\ result' = [op |-> "message", arg |-> None, r |-> Ok(MessageValues)]
    /\ UNCHANGED << pc, hashed >>
    /\ Unchanged

NextPrepare == PrepareData \/ GetMessageValues

SpecPrepare == InitPrepare /\ [][NextPrepare]_vars

\* the serialization by one rule at every depth: an elementary value as it
\* is, a struct as the map of its serialized fields, an array as the array
\* of its serialized elements
RECURSIVE Serialized(_)
Serialized(x) ==
    CASE x.t = "inst" -> [t |-> "dict",
                          entries |-> [i \in DOMAIN x.fields |->
                                         [name  |-> x.fields[i].name,
                                          value |-> Serialized(x.fields[i].value)]]]
      [] x.t = "list" -> [t |-> "list", items |-> [i \in DOMAIN x.items |-> Serialized(x.items[i])]]
      [] OTHER        -> x

\* C13: the values prepared for hashing are the message values serialized
\* by that rule: elementary values unchanged, a struct as a name-to-value
\* map at every depth, an array of structs as an array of such maps, an
\* array of elementary values as the same array.
C13_SerializedRecursively ==
    result.op = "_prepare_data_for_hashing" =>
        \A i \in DOMAIN result.r.v :
            result.r.v[i].value = Serialized(Getattr(result.r.v[i].name))

(***************************************************************************)
(* validation.py: the validator of a structured-data document              *)
(* (specification SpecValidate).  A document is                            *)
(*   [keys: the top-level keys present, types: name -> members,            *)
(*    primaryType: the value under "primaryType"].                         *)
(* Struct names, field names and field types are strings in every          *)
(* document drawn, so the isinstance tests of lines 39, 47 and 54 pass.    *)
(***************************************************************************)
\* IDENTIFIER_REGEX ^[a-zA-Z_$][a-zA-Z_$0-9]*$ over the field names drawn:
\* "1a" starts with a digit
IdentifierNames == DomainFieldNames \cup {"a", "b"}

MatchesIdentifierRegex(name) == name \in IdentifierNames

\* TYPE_REGEX ^[a-zA-Z_$][a-zA-Z_$0-9]*(\[([1-9]\d*)*\])*$ over the type
\* strings drawn: "S1[]", "S1[][]" and "S1[3]" match, "S1[0]" and
\* "uint 256" do not
TypeRegexNames ==
    { EIP712_DOMAIN_FIELDS[i].type : i \in DOMAIN EIP712_DOMAIN_FIELDS }
      \cup {"S1", "S1[]", "S1[][]", "S1[3]"}

MatchesTypeRegex(type) == type \in TypeRegexNames

validate_has_attribute(attr_name, dict_data) ==
    IF attr_name \notin dict_data.keys THEN Raise("ValidationError") ELSE Ok(None)

validate_types_attribute(structured_data) ==
    IF ~validate_has_attribute("types", structured_data).ok
    THEN Raise("ValidationError")
    ELSE IF \E i \in DOMAIN structured_data.types :
              \E j \in DOMAIN structured_data.types[i].members :
                  LET field == structured_data.types[i].members[j]
                  IN  ~MatchesIdentifierRegex(field.name) \/ ~MatchesTypeRegex(field.type)
         THEN Raise("ValidationError")
         ELSE Ok(None)

validate_field_declared_only_once_in_struct(field_name, struct_data, struct_name) ==
    IF Len(SelectSeq(struct_data, LAMBDA field : field.name = field_name)) # 1
    THEN Raise("ValidationError")
    ELSE Ok(None)

\* validation.py has a list of its own, without salt
VALIDATION_EIP712_DOMAIN_FIELDS == << "name", "version", "chainId", "verifyingContract" >>

used_header_fields(EIP712Domain_data) ==
    LET used == SelectSeq(EIP712Domain_data,
                          LAMBDA field : \E i \in DOMAIN VALIDATION_EIP712_DOMAIN_FIELDS :
                                            VALIDATION_EIP712_DOMAIN_FIELDS[i] = field.name)
    IN  [i \in DOMAIN used |-> used[i].name]

validate_EIP712Domain_schema(structured_data) ==
    IF ~DictHas(structured_data.types, "EIP712Domain") THEN Raise("ValidationError")
    ELSE LET EIP712Domain_data == MembersOf(structured_data.types, "EIP712Domain")
             header_fields     == used_header_fields(EIP712Domain_data)
         IN  IF Len(header_fields) = 0 THEN Raise("ValidationError")
             ELSE IF \E i \in DOMAIN header_fields :
                        ~validate_field_declared_only_once_in_struct(
                             header_fields[i], EIP712Domain_data, "EIP712Domain").ok
                  THEN Raise("ValidationError")
                  ELSE Ok(None)

validate_primaryType_attribute(structured_data) ==
    IF "primaryType" \notin structured_data.keys THEN Raise("ValidationError")
    ELSE IF structured_data.primaryType.t # "str" THEN Raise("ValidationError")
    ELSE IF ~DictHas(structured_data.types, structured_data.primaryType.s)
         THEN Raise("ValidationError")
    ELSE Ok(None)

validate_structured_data(structured_data) ==
    IF ~validate_types_attribute(structured_data).ok THEN Raise("ValidationError")
    ELSE IF ~validate_EIP712Domain_schema(structured_data).ok THEN Raise("ValidationError")
    ELSE IF ~validate_primaryType_attribute(structured_data).ok THEN Raise("ValidationError")
    ELSE IF ~validate_has_attribute("domain", structured_data).ok THEN Raise("ValidationError")
    ELSE validate_has_attribute("message", structured_data)

\* the top-level keys of a document
BodyKeys == {"types", "primaryType", "domain", "message"}

\* member lists of the EIP712Domain struct of a document: any fields of the
\* standard, in any order, repeated or not
DomainMemberLists ==
    UNION { [1..n -> { EIP712_DOMAIN_FIELDS[i] : i \in DOMAIN EIP712_DOMAIN_FIELDS }] :
              n \in 0..MaxDomainMembers }

\* member lists of the message struct of a document, some with a repeated
\* name, a static or nested array, a bad identifier or a bad type string
MessageMemberLists ==
    LET entries == { [name |-> "a",  type |-> "uint256"],
                     [name |-> "b",  type |-> "uint256"],
                     [name |-> "a",  type |-> "S1[3]"],
                     [name |-> "a",  type |-> "S1[][]"],
                     [name |-> "1a", type |-> "uint256"],
                     [name |-> "a",  type |-> "uint 256"] }
    IN  UNION { [1..n -> entries] : n \in 1..2 }

\* the documents a caller writes by hand
WrittenDocuments ==
    { [keys        |-> keys,
       types       |-> domain \o << [name |-> "Msg", members |-> mm] >>,
       primaryType |-> pt] :
        keys   \in {BodyKeys} \cup { BodyKeys \ {k} : k \in BodyKeys },
        domain \in { << >> } \cup { << [name |-> "EIP712Domain", members |-> dm] >> :
                                      dm \in DomainMemberLists },
        mm     \in MessageMemberLists,
        pt     \in { StrVal("Msg"), StrVal("Other"), IntVal(0) } }

\* the header that supplies the fields of S, each with a truthy value
HeaderSupplying(S) ==
    LET fields == SelectSeq(EIP712_DOMAIN_FIELDS, LAMBDA f : f.name \in S)
    IN  [i \in DOMAIN fields |->
            [field |-> fields[i].name,
             value |-> CHOOSE v \in HeaderValues(fields[i].name) : Truthy(v)]]

\* the documents _body_ makes: a flat message class under the domain of a
\* header that supplies a non-empty set of fields
BodyDocuments ==
    { [keys        |-> BodyKeys,
       types       |-> DictUpdate(<< [name |-> "Msg",
                                      members |-> << [name |-> "a", type |-> "uint256"] >>] >>,
                                  domain_of(HeaderSupplying(S)).types),
       primaryType |-> StrVal("Msg")] :
        S \in (SUBSET DomainFieldNames) \ { {} } }

\* a document is at hand, not yet validated
InitValidate ==
    /\ way = "subclass"
    /\ primary = "Msg"
    /\ isMessage = TRUE
    /\ header = << >>
    /\ schema = SchemaOf("Msg", Fields(<< AbiT("uint256") >>), AbiT("uint256"), AbiT("uint256"))
    /\ leaf = 0
    /\ pc = "defined"
    /\ \E structured_data \in WrittenDocuments \cup BodyDocuments :
         result = [op |-> "none", arg |-> structured_data, r |-> Ok(None)]
    /\ hashed = FALSE
    /\ returned = NothingReturned

\* validate_structured_data(structured_data)
ValidateStructuredData ==
    /\ result.op = "none"
    /\ result' = [op |-> "validate_structured_data", arg |-> result.arg,
                  r |-> validate_structured_data(result.arg)]
    /\ UNCHANGED << pc, hashed >>
    /\ Unchanged

NextValidate == ValidateStructuredData

SpecValidate == InitValidate /\ [][NextValidate]_vars

\* a struct of the document declares a field name more than once
DeclaredTwice(structured_data) ==
    \E i \in DOMAIN structured_data.types :
        \E j, k \in DOMAIN structured_data.types[i].members :
            /\ j # k
            /\ structured_data.types[i].members[j].name = structured_data.types[i].members[k].name

\* C16: a document in which a struct (the EIP712Domain struct or a message
\* struct) declares the same field name more than once is rejected with a
\* validation error.
C16_DuplicateFieldRejected ==
    (result.op = "validate_structured_data" /\ DeclaredTwice(result.arg)) =>
        result.r = Raise("ValidationError")

\* the names the EIP712Domain struct of the document declares
DomainNamesOf(structured_data) ==
    LET members == MembersOf(structured_data.types, "EIP712Domain")
    IN  { members[i].name : i \in DOMAIN members }

\* C20: the validator accepts every canonical struct the message side makes:
\* for every non-empty subset of name, version, chainId, verifyingContract
\* and salt (salt alone included), the document _body_ makes for a header
\* supplying exactly those fields passes validate_structured_data.
C20_BodyDocumentsAccepted ==
    (result.op = "validate_structured_data" /\ result.arg \in BodyDocuments) =>
        result.r.ok

(***************************************************************************)
(* common.py: create_safe_tx_def and the message it defines                *)
(* (specification SpecSafe).                                               *)
(***************************************************************************)
\* the fields SafeTxV1 and SafeTxV2 share before and after the gas field
SafeTxFields(gas) ==
    << [name |-> "to",             ann |-> AbiT("address")],
       [name |-> "value",          ann |-> AbiT("uint256")],
       [name |-> "data",           ann |-> AbiT("bytes")],
       [name |-> "operation",      ann |-> AbiT("uint8")],
       [name |-> "safeTxGas",      ann |-> AbiT("uint256")],
       [name |-> gas,              ann |-> AbiT("uint256")],
       [name |-> "gasPrice",       ann |-> AbiT("uint256")],
       [name |-> "gasToken",       ann |-> AbiT("address")],
       [name |-> "refundReceiver", ann |-> AbiT("address")],
       [name |-> "nonce",          ann |-> AbiT("uint256")] >>

SafeTxV1 == SafeTxFields("dataGas")

SafeTxV2 == SafeTxFields("baseGas")

SAFE_VERSIONS == {"1.0.0", "1.1.0", "1.1.1", "1.2.0", "1.3.0", "1.4.1"}

\* int(version.split(".")[0]) and [1], for the versions of SAFE_VERSIONS
SafeMajor(version) == 1

SafeMinor(version) ==
    CASE version = "1.0.0" -> 0
      [] version \in {"1.1.0", "1.1.1"} -> 1
      [] version = "1.2.0" -> 2
      [] version = "1.3.0" -> 3
      [] version = "1.4.1" -> 4

\* the class returned: its fields, and the header values its body assigns
create_safe_tx_def(version, contract_address, chain_id) ==
    IF ~Truthy(contract_address) THEN Raise("ValueError")
    ELSE IF version \notin SAFE_VERSIONS THEN Raise("ValueError")
    ELSE IF SafeMinor(version) < 3
         THEN Ok([fields |-> SafeTxV1,
                  header |-> << [field |-> "verifyingContract", value |-> contract_address] >>])
    ELSE IF ~Truthy(chain_id) THEN Raise("ValueError")
    ELSE Ok([fields |-> SafeTxV2,
             header |-> << [field |-> "chainId",           value |-> chain_id],
                           [field |-> "verifyingContract", value |-> contract_address] >>])

\* the arguments a caller passes
SafeTxArguments ==
    [version          : SAFE_VERSIONS \cup {"1.5.0", "2.0.0"},
     contract_address : {None, StrVal(""), StrVal("0xC0")},
     chain_id         : {None} \cup { IntVal(n) : n \in 0..MaxChainId }]

\* no class yet: the arguments of the call are at hand
InitSafe ==
    /\ way = "create_safe_tx_def"
    /\ primary = "SafeTx"
    /\ isMessage = TRUE
    /\ header = << >>
    /\ schema = SchemaOf("SafeTx", << >>, AbiT("uint256"), AbiT("uint256"))
    /\ leaf \in LeafValues
    /\ pc = "undefined"
    /\ \E args \in SafeTxArguments :
         result = [op |-> "none", arg |-> args, r |-> Ok(None)]
    /\ hashed = FALSE
    /\ returned = NothingReturned

\* create_safe_tx_def(version, contract_address, chain_id)
CreateSafeTxDef ==
    /\ pc = "undefined"
    /\ result.op = "none"
    /\ LET r == create_safe_tx_def(result.arg.version, result.arg.contract_address,
                                   result.arg.chain_id)
       IN  /\ result' = [op |-> "create_safe_tx_def", arg |-> result.arg, r |-> r]
           /\ IF r.ok
              THEN /\ schema' = SchemaOf("SafeTx", r.v.fields, AbiT("uint256"), AbiT("uint256"))
                   /\ header' = r.v.header
                   /\ pc' = "defined"
              ELSE UNCHANGED << schema, header, pc >>
    /\ UNCHANGED << way, primary, isMessage, leaf, hashed, returned >>

NextSafe ==
    \/ CreateSafeTxDef
    \/ Construct
    \/ GetDomain
    \/ SignableMessage
    \/ MessageHash

SpecSafe == InitSafe /\ [][NextSafe]_vars

(***************************************************************************)
(* Repeated calls on one instance, the first result of each operation kept *)
(* (specification SpecFrame).                                              *)
(***************************************************************************)
InitFrame ==
    /\ isMessage = TRUE
    /\ header \in InstanceHeaders
    /\ leaf \in LeafValues
    /\ way = "subclass"
    /\ primary = "Msg"
    /\ schema \in { s \in InstanceSchemas : primary \in DOMAIN s }
    /\ pc = "constructed"
    /\ result = [op |-> "none", arg |-> None, r |-> Ok(None)]
    /\ hashed = FALSE
    /\ returned = NothingReturned

\* what the operation returns on the instance as it is now
Call(op) ==
    CASE op = "_types_"           -> types_
      [] op = "build_eip712_type" -> build_eip712_type(primary, 1)
      [] op = "_body_"            -> body_
      [] op = "signable_message"  -> signable_message
      [] op = "_message_hash_"    -> message_hash_

\* one of the operations is called; none of them assigns to the instance or
\* to its class: eip712_types and build_eip712_type fill a dict of their
\* own, _body_ copies the types into a new dict, _prepare_data_for_hashing
\* fills a new dict
FrameCall ==
    /\ \E op \in FrameOps :
         LET r == Call(op)
         IN  /\ result' = [op |-> op, arg |-> None, r |-> r]
             /\ returned' = IF returned[op] = NotCalled
                             THEN [returned EXCEPT ![op] = r]
                             ELSE returned
             /\ hashed' = (hashed \/ (op \in {"signable_message", "_message_hash_"}
                                        /\ signable_message_prepared))
    /\ UNCHANGED << way, primary, isMessage, schema, header, leaf, pc >>

NextFrame == FrameCall

SpecFrame == InitFrame /\ [][NextFrame]_vars

(***************************************************************************)
(* Two instances of one message class: the first is hashed, then the       *)
(* message values or the domain values are replaced by others and the      *)
(* second is hashed (specification SpecTwin).  `returned` keeps what the    *)
(* first instance returned.                                                *)
(***************************************************************************)
\* the headers of the first instance: each supplied field has a truthy value
TwinFieldSets ==
    { {"name"}, {"chainId"}, {"name", "chainId"}, {"name", "version", "salt"}, DomainFieldNames }

\* the first instance: leaf value 0, header HeaderSupplying(S)
InitTwin ==
    /\ isMessage = TRUE
    /\ \E S \in TwinFieldSets : header = HeaderSupplying(S)
    /\ leaf = 0
    /\ way = "subclass"
    /\ primary = "Msg"
    /\ schema \in { s \in InstanceSchemas : primary \in DOMAIN s }
    /\ pc = "constructed"
    /\ result = [op |-> "none", arg |-> None, r |-> Ok(None)]
    /\ hashed = FALSE
    /\ returned = NothingReturned

\* msg.signable_message, the result of the first instance kept
TwinSignableMessage ==
    /\ LET r == signable_message
       IN  /\ result' = [op |-> "signable_message", arg |-> None, r |-> r]
           /\ returned' = IF returned["signable_message"] = NotCalled
                           THEN [returned EXCEPT !["signable_message"] = r]
                           ELSE returned
    /\ hashed' = (hashed \/ signable_message_prepared)
    /\ UNCHANGED << way, primary, isMessage, schema, header, leaf, pc >>

\* a second instance of the class with other message values
OtherMessageValues ==
    /\ returned["signable_message"] # NotCalled
    /\ leaf' \in LeafValues \ {leaf}
    /\ result' = [op |-> "construct", arg |-> None, r |-> validate_model]
    /\ UNCHANGED << way, primary, isMessage, schema, header, pc, hashed, returned >>

\* a second instance with other values for the same domain fields
OtherDomainValues ==
    /\ returned["signable_message"] # NotCalled
    /\ \E i \in DOMAIN header :
         \E v \in HeaderValues(header[i].field) \ {header[i].value} :
            header' = [header EXCEPT ![i].value = v]
    /\ result' = [op |-> "construct", arg |-> None, r |-> validate_model]
    /\ UNCHANGED << way, primary, isMessage, schema, leaf, pc, hashed, returned >>

NextTwin == TwinSignableMessage \/ OtherMessageValues \/ OtherDomainValues

SpecTwin == InitTwin /\ [][NextTwin]_vars

(***************************************************************************)
(* Message classes whose body declares fields under any name: plain names, *)
(* names with the "eip712_" prefix only, with the "_" suffix only, and     *)
(* with both (specification SpecNames).                                    *)
(***************************************************************************)
\* the names a class body may give a message field
DeclaredNames == {"a", "b", "eip712_extra", "extra_", "eip712_other_"}

\* the field lists of such a class: distinct names, each field a uint256
NamedFields ==
    UNION { { [i \in 1..n |-> [name |-> names[i], ann |-> AbiT("uint256")]] :
                names \in { ns \in [1..n -> DeclaredNames] :
                              \A i, j \in 1..n : i # j => ns[i] # ns[j] } }
            : n \in 1..MaxFields }

InitNames ==
    /\ isMessage = TRUE
    /\ way = "subclass"
    /\ primary = "Msg"
    /\ header \in InstanceHeaders
    /\ leaf \in LeafValues
    /\ \E fields \in NamedFields :
         schema = SchemaOf("Msg", fields, AbiT("uint256"), AbiT("uint256"))
    /\ pc = "defined"
    /\ result = [op |-> "none", arg |-> None, r |-> Ok(None)]
    /\ hashed = FALSE
    /\ returned = NothingReturned

NextNames == Construct \/ Eip712Types \/ GetBody

SpecNames == InitNames /\ [][NextNames]_vars

(***************************************************************************)
(* Claims about the type graph (specification SpecBuild).                  *)
(***************************************************************************)
\* the structs a class refers to by a struct-typed or array-of-struct field
Refers(c, T) ==
    \E i \in DOMAIN schema[c] :
        schema[c][i].ann = ModelT(T) \/ schema[c][i].ann = ListT(ModelT(T))

RECURSIVE ReachableFrom(_, _)
ReachableFrom(seen, n) ==
    IF n = 0 THEN seen
    ELSE ReachableFrom(seen \cup { T \in SubStructs : \E c \in seen : Refers(c, T) }, n - 1)

\* the primary type and every struct transitively reachable from it
Reachable == ReachableFrom({primary}, Cardinality(SubStructs))

\* a struct reachable from the primary type transitively refers to itself
Cyclic ==
    \E T \in Reachable \cap SubStructs :
        T \in ReachableFrom({ U \in SubStructs : Refers(T, U) }, Cardinality(SubStructs))

\* the number of fields of reachable classes that refer to T
RefCount(T) ==
    Cardinality({ ci \in Reachable \X (1..(MaxFields + 1)) :
                    /\ ci[2] \in DOMAIN schema[ci[1]]
                    /\ \/ schema[ci[1]][ci[2]].ann = ModelT(T)
                       \/ schema[ci[1]][ci[2]].ann = ListT(ModelT(T)) })

\* one {name, type} entry per field the body of c declares, in that order
DeclaredMembers(c) ==
    [i \in DOMAIN schema[c] |->
        [name |-> schema[c][i].name, type |-> get_abi_type(schema[c][i].ann).v]]

Built == result.op \in {"build_eip712_type", "eip712_types"} /\ result.r.ok

KeysNamed(graph, T) == { i \in DOMAIN graph : graph[i].name = T }

\* C4: a struct referred to more than once from the primary type (by several
\* fields, directly or through arrays, or through different structs) is
\* exactly one key of the type graph, with its declared fields as members.
C4_Dedup ==
    Built =>
        \A T \in SubStructs :
            RefCount(T) > 1 =>
                /\ Cardinality(KeysNamed(result.r.v, T)) = 1
                /\ \A i \in KeysNamed(result.r.v, T) :
                      result.r.v[i].members = DeclaredMembers(T)

\* build_eip712_type succeeded on a primary type that refers to S1 through
\* an array and to S2 directly, while S1 refers to S2 too
C4_Witness ==
    /\ result.op = "build_eip712_type" /\ result.r.ok
    /\ schema[primary] = Fields(<< ListT(ModelT("S1")), ModelT("S2") >>)
    /\ schema["S1"][1].ann = ModelT("S2")
    /\ RefCount("S2") = 2

\* the type string of a d-deep array of T
RECURSIVE ArrayTypeString(_, _)
ArrayTypeString(T, d) == IF d = 0 THEN T ELSE ArrayTypeString(T, d - 1) \o "[]"

\* the struct a member type string names once every [] suffix is removed
StructNamed(type) ==
    { T \in SubStructs : \E d \in 0..MaxListDepth : type = ArrayTypeString(T, d) }

\* C5: when build succeeds the keys of the type graph are the primary type
\* and the structs transitively reachable from it, no other type is a key,
\* and every struct named by a member type string is itself a key.
C5_KeysAreReachable ==
    Built =>
        /\ { result.r.v[i].name : i \in DOMAIN result.r.v } = Reachable
        /\ \A i \in DOMAIN result.r.v :
              \A j \in DOMAIN result.r.v[i].members :
                  \A T \in StructNamed(result.r.v[i].members[j].type) :
                      KeysNamed(result.r.v, T) # {}

\* C6: build on a schema in which a reachable struct transitively refers to
\* itself fails with a SchemaError.
C6_CycleRejected ==
    (result.op \in {"build_eip712_type", "eip712_types"} /\ Cyclic) =>
        (~result.r.ok /\ result.r.err = "SchemaError")

\* an elementary type or an array of one
ElementaryOrArray(ann) ==
    ann.k = "abi" \/ (ann.k = "list" /\ ann.inner.k = "abi")

\* C10: build_eip712_type lists under the class's name one entry per declared
\* message field, in declaration order, typed by get_abi_type; for a message
\* whose only field is elementary the graph is that single key, with no
\* entry for a domain header field.
C10_DeclaredFieldsOnly ==
    /\ (result.op = "build_eip712_type" /\ result.r.ok) =>
          \A i \in KeysNamed(result.r.v, primary) :
              result.r.v[i].members = DeclaredMembers(primary)
    /\ ( /\ result.op = "build_eip712_type"
         /\ isMessage
         /\ Len(schema[primary]) = 1
         /\ ElementaryOrArray(schema[primary][1].ann) ) =>
          ( /\ result.r.ok
            /\ result.r.v = << [name |-> primary, members |-> DeclaredMembers(primary)] >> )

(***************************************************************************)
(* Claims about the canonical struct and the digest (specification Spec).  *)
(***************************************************************************)

\* C7: the canonical struct of a constructed message has types["EIP712Domain"]
\* equal to the resolved domain field defs, types[primaryType] equal to the
\* type graph's member list of the primary type, and primaryType equal to the
\* declared name of the class, whatever that name is.
C7_CanonicalStruct ==
    (result.op = "_body_" /\ result.r.ok) =>
        /\ result.r.v.primaryType = primary
        /\ MembersOf(result.r.v.types, "EIP712Domain") = domain_.types[1].members
        /\ MembersOf(result.r.v.types, result.r.v.primaryType) = MembersOf(types_.v, primary)

\* the struct hash of the primary type over the message values of the instance
StructHash ==
    hash_struct(primary, types_.v,
                prepare_data_for_hashing(
                    [i \in DOMAIN schema[primary] |->
                        [name  |-> schema[primary][i].name,
                         value |-> model_dump(ValueOf(schema[primary][i].ann))]]))

NestedArrayField ==
    \E i \in DOMAIN schema[primary] :
        schema[primary][i].ann.k = "list" /\ schema[primary][i].ann.inner.k = "list"

\* C12: a class with a field declared as an array of arrays is rejected with
\* a TypeError by type-graph construction.
C12_NestedArrayRejected ==
    (result.op = "build_eip712_type" /\ NestedArrayField) =>
        result.r = Raise("TypeError")

\* the operations that are to produce a hash
HashOps == HashProperties \cup {"signable_message", "_message_hash_", "calculate_hash"}

TypeNamesAscending == << "EIP712Domain", "Msg", "Permit", "S1", "S2" >>

\* the keys of `types` that the members of the types in `seen` name, added
\* to `seen`, n times over
RECURSIVE ReferencedFrom(_, _, _)
ReferencedFrom(types, seen, n) ==
    IF n = 0 THEN seen
    ELSE ReferencedFrom(types,
             seen \cup { types[k].name : k \in
                           { k \in DOMAIN types :
                               \E i \in DOMAIN types : types[i].name \in seen /\
                                 \E j \in DOMAIN types[i].members :
                                    \E d \in 0..MaxListDepth :
                                       types[i].members[j].type = ArrayTypeString(types[k].name, d) } },
             n - 1)

\* encodeType as the claim words it: the signature of T (its name and its
\* members in declared order), then the signatures of the other types
\* transitively referenced from T, each once, ascending by name
ClaimedEncodeType(T, types) ==
    LET deps   == ReferencedFrom(types, {T}, Len(types)) \ {T}
        sorted == SelectSeq(TypeNamesAscending, LAMBDA n : n \in deps)
    IN  << [name |-> T, members |-> MembersOf(types, T)] >> \o
        [i \in DOMAIN sorted |-> [name |-> sorted[i], members |-> MembersOf(types, sorted[i])]]

\* C15: the type hash of a message is keccak256 of encodeType of its primary
\* type: the primary type's signature first, then every other referenced
\* struct once, in ascending order of name.
C15_TypeHash ==
    (result.op = "_type_hash_" /\ types_.ok) =>
        /\ result.r.ok
        /\ result.r.v = keccak(ClaimedEncodeType(primary, types_.v))

\* the versions below 1.3.0
SafeV1Versions == {"1.0.0", "1.1.0", "1.1.1", "1.2.0"}

FieldNamesOf(fields) == { fields[i].name : i \in DOMAIN fields }

\* C17: create_safe_tx_def is the decision table: no contract address ->
\* ValueError; unknown version -> ValueError; a version below 1.3.0 -> the
\* SafeTx with dataGas whose domain is verifyingContract alone, whatever
\* chain_id is; 1.3.0 or later without a chain id (or with 0) -> ValueError;
\* else the SafeTx with baseGas whose domain is chainId, verifyingContract.
\* All versions below 1.3.0 define the same message and domain separator,
\* 1.3.0 and 1.4.1 another one.
C17_SafeTxTable ==
    result.op = "create_safe_tx_def" =>
        LET version          == result.arg.version
            contract_address == result.arg.contract_address
            chain_id         == result.arg.chain_id
            r                == result.r
            v1 == [name |-> "verifyingContract", type |-> "address"]
            c1 == [name |-> "chainId", type |-> "uint256"]
        IN  /\ contract_address \in {None, StrVal("")} => r = Raise("ValueError")
            /\ (contract_address = StrVal("0xC0") /\ version \notin SAFE_VERSIONS) =>
                    r = Raise("ValueError")
            /\ (contract_address = StrVal("0xC0") /\ version \in SafeV1Versions) =>
                    /\ r.ok /\ pc = "defined"
                    /\ "dataGas" \in FieldNamesOf(schema[primary])
                    /\ "baseGas" \notin FieldNamesOf(schema[primary])
                    /\ domain_.types[1].members = << v1 >>
                    /\ domain_.domain = << [name |-> "verifyingContract", value |-> contract_address] >>
                    /\ \A other \in SafeV1Versions, c \in {None} \cup { IntVal(n) : n \in 0..MaxChainId } :
                          create_safe_tx_def(other, contract_address, c) = r
            /\ ( /\ contract_address = StrVal("0xC0")
                 /\ version \in {"1.3.0", "1.4.1"}
                 /\ chain_id \in {None, IntVal(0)} ) => r = Raise("ValueError")
            /\ ( /\ contract_address = StrVal("0xC0")
                 /\ version \in {"1.3.0", "1.4.1"}
                 /\ chain_id \notin {None, IntVal(0)} ) =>
                    /\ r.ok /\ pc = "defined"
                    /\ "baseGas" \in FieldNamesOf(schema[primary])
                    /\ "dataGas" \notin FieldNamesOf(schema[primary])
                    /\ domain_.types[1].members = << c1, v1 >>
                    /\ domain_.domain = << [name |-> "chainId", value |-> chain_id],
                                           [name |-> "verifyingContract", value |-> contract_address] >>
                    /\ \A other \in {"1.3.0", "1.4.1"} :
                          create_safe_tx_def(other, contract_address, chain_id) = r
                    /\ \A other \in SafeV1Versions :
                          /\ create_safe_tx_def(other, contract_address, chain_id).v.fields # r.v.fields
                          /\ DomainSeparator(create_safe_tx_def(other, contract_address, chain_id).v.header)
                               # DomainSeparator(header)

\* version 1.4.1 with a contract address and a chain id defined the SafeTx
\* with baseGas
C17_Witness ==
    /\ result.op = "create_safe_tx_def"
    /\ result.arg.version = "1.4.1"
    /\ result.r.ok
    /\ schema[primary] = SafeTxV2
    /\ Len(header) = 2

FirstHeader(hdr) == HeaderSupplying({ hdr[i].field : i \in DOMAIN hdr })

\* C19: an instance that differs from the first one only in message values
\* has the first one's domain separator, and one that differs only in
\* domain values has the first one's struct hash.
C19_SeparatorAndStructHashIndependent ==
    ( /\ result.op = "signable_message" /\ result.r.ok
      /\ returned["signable_message"].ok ) =>
        /\ header = FirstHeader(header) =>
              result.r.v.header = returned["signable_message"].v.header
        /\ leaf = 0 =>
              result.r.v.body = returned["signable_message"].v.body

\* the second instance has other domain values and another domain
\* separator, and was hashed
C19_Witness ==
    /\ result.op = "signable_message" /\ result.r.ok
    /\ returned["signable_message"].ok
    /\ leaf = 0
    /\ header # FirstHeader(header)
    /\ result.r.v.header # returned["signable_message"].v.header


(***************************************************************************)
(* Claims about the field names of a message class (specification          *)
(* SpecNames).                                                             *)
(***************************************************************************)
\* the member names of types[primaryType] of a canonical struct, in order
MemberNames(body) ==
    LET members == MembersOf(body.types, body.primaryType)
    IN  [i \in DOMAIN members |-> members[i].name]

\* C21: in the canonical struct of a message the keys of `message` are the
\* member names of types[primaryType], in the same order, whatever the
\* fields are named (names that begin with "eip712_" and do not end with "_"
\* included), and no domain header field is among either.
C21_MessageKeysAreMembers ==
    (result.op = "_body_" /\ result.r.ok) =>
        /\ DictKeys(result.r.v.message) = MemberNames(result.r.v)
        /\ \A i \in DOMAIN result.r.v.message : result.r.v.message[i].name \notin HeaderAttrs
        /\ \A i \in DOMAIN MemberNames(result.r.v) : MemberNames(result.r.v)[i] \notin HeaderAttrs

====
